---- MODULE Spec2Model ----
(***************************************************************************)
(* Model of the forecast CSV worker (src/src/index.ts): parseCSV and the   *)
(* ForecastDataAccess methods getForecastData, storeForecastData,          *)
(* clearDatabase and processCSVChunk, over an R2 bucket and a D1 database. *)
(*                                                                         *)
(* A text is held as the sequence of its lines (content.split('\n')), a    *)
(* line as the sequence of its cells (line.split(',')): every text is      *)
(* exactly one non-empty sequence of non-empty sequences of cells that     *)
(* hold neither ',' nor '\n'.  JavaScript's undefined is Undefined.        *)
(***************************************************************************)
EXTENDS Integers, Sequences, FiniteSets, TLC

VARIABLES bucket, db, req, done, fold, drive

vars == <<bucket, db, req, done, fold, drive>>

\* ------------------------------------------------------------------ bounds
\* most data lines (lines after the header) of a file in the bucket
MaxLines == 2
\* most data lines of a text handed to the pure functions
MaxFoldLines == 3
\* most data lines of a file the drive loop goes through
MaxDriveLines == 3
\* most records of a webhook payload
MaxPayload == 2
\* largest startLine a caller passes
MaxStart == 3
\* largest chunkSize a caller passes
MaxChunk == 2

\* ------------------------------------------------------------- JS values
Undefined == "<undefined>"

\* a JavaScript value used as a condition: undefined and '' are falsy
Truthy(v) == v # Undefined /\ v # ""

\* String.prototype.trim on the cells of the sample
Trim(s) == IF s = " " THEN "" ELSE IF s = " 105 " THEN "105" ELSE s

\* a value inside a template literal
ToStr(v) == IF v = Undefined THEN "undefined" ELSE v

Max(S) == CHOOSE x \in S : \A y \in S : y <= x

Min(a, b) == IF a <= b THEN a ELSE b

\* Array.prototype.slice(from, to) for 0 <= from <= to, on an array held as a
\* 1-based sequence
Slice(s, from, to) == SubSeq(s, from + 1, Min(to, Len(s)))

\* ----------------------------------------------------------------- sample
\* Header lines (cells as split, before trim).
FcstHeader == <<"date", "time", "load_fcst", "revision">>
FcstHeaderNoRevision == <<"date", "time", "load_fcst">>
ActHeader == <<"date", "time", "load_act">>

\* Data lines.  RevA < RevB as instants; RevX does not parse as a date.
RevA == "2024-01-01T00:00:00Z"
RevB == "2024-01-02T00:00:00Z"
RevX == "rev-b"
LineA == <<"2024-01-01", "00:00", "100", RevA>>
LineB == <<"2024-01-01", "00:00", " 105 ", RevB>>
LineOther == <<"2024-01-02", "01:00", "110", RevA>>
LineNoRev == <<"2024-01-01", "00:00", "120">>
LineEmpty == <<"">>
LineBlankValue == <<"2024-01-01", "00:00", " ", RevB>>
LineBadRev == <<"2024-01-01", "00:00", "130", RevX>>
\* two lines whose (date, time) differ and whose `${date}_${time}` agree
LineJoin1 == <<"2024-01-01_12", "00", "140", RevA>>
LineJoin2 == <<"2024-01-01", "12_00", "150", RevB>>

\* new Date(s).getTime() on the revisions of the sample, in days since the
\* epoch; 0 stands for NaN (an Invalid Date), which no comparison satisfies
DateTime(s) ==
  CASE s = RevA -> 19723
    [] s = RevB -> 19724
    [] OTHER -> 0

\* new Date(a) > new Date(b)
DateGreater(a, b) ==
  /\ DateTime(a) # 0
  /\ DateTime(b) # 0
  /\ DateTime(a) > DateTime(b)

\* Rank of the dates and times of the sample in code-unit order, which is
\* also their order under localeCompare (the strings differ first at a digit
\* or by length).
LexRank(s) ==
  CASE s = "" -> 0
    [] s = "00" -> 1
    [] s = "00:00" -> 2
    [] s = "01:00" -> 3
    [] s = "12_00" -> 4
    [] s = "2024-01-01" -> 5
    [] s = "2024-01-01_12" -> 6
    [] s = "2024-01-02" -> 7
    [] s = "date" -> 8
    [] s = "time" -> 9
    [] s = "undefined" -> 10

\* a >= b on two values: false when either is undefined (NaN comparison)
GreaterEq(a, b) ==
  /\ a # Undefined
  /\ b # Undefined
  /\ LexRank(a) >= LexRank(b)

\* a.localeCompare(b) < 0, = 0
LocaleLess(a, b) == LexRank(a) < LexRank(ToStr(b))

\* ------------------------------------------------------------ the records
\* ForecastRecord, src/src/index.ts 11-18
ForecastRecord(date, time, load_fcst, load_act, revision) ==
  [date |-> date, time |-> time, load_fcst |-> load_fcst,
   load_act |-> load_act, revision |-> revision]

\* headers.forEach((header, i) => { if (header in record) record[header] =
\* values[i] ? values[i].trim() : undefined }) for one field of the record:
\* the last column of that name decides, a field no column names keeps its
\* initial value
FieldOf(headers, values, name, initial) ==
  LET cols == {i \in 1..Len(headers) : headers[i] = name}
  IN IF cols = {} THEN initial
     ELSE LET i == Max(cols)
          IN IF i <= Len(values) /\ values[i] # "" THEN Trim(values[i])
             ELSE Undefined

\* the record of one line under the given (trimmed) headers
RecordOfLine(headers, values) ==
  ForecastRecord(FieldOf(headers, values, "date", ""),
                 FieldOf(headers, values, "time", ""),
                 FieldOf(headers, values, "load_fcst", Undefined),
                 FieldOf(headers, values, "load_act", Undefined),
                 FieldOf(headers, values, "revision", Undefined))

\* lines[0].split(',').map(header => header.trim())
HeadersOf(lines) == [i \in 1..Len(lines[1]) |-> Trim(lines[1][i])]

\* `${record.date}_${record.time}`
KeyOf(record) == ToStr(record.date) \o "_" \o ToStr(record.time)

\* position in acc (an object's values in insertion order) of the entry of
\* that key, 0 when acc[key] is undefined
SlotOf(acc, key) ==
  IF \E i \in 1..Len(acc) : KeyOf(acc[i]) = key
  THEN CHOOSE i \in 1..Len(acc) : KeyOf(acc[i]) = key
  ELSE 0

\* ------------------------------------------------------------ parseCSV
\* expectedHeaders, src/src/index.ts 41-46
ExpectedHeaders(type) ==
  IF type = "load" THEN <<"date", "time", "load_act">>
  ELSE <<"date", "time", "load_fcst", "revision">>

\* a check that wants every expected header at its expected position
MissingHeadersByPosition(headers, type) ==
  SelectSeq(ExpectedHeaders(type),
            LAMBDA h : \A i \in 1..Min(Len(headers), Len(ExpectedHeaders(type))) :
                         headers[i] # h \/ ExpectedHeaders(type)[i] # h)

\* expectedHeaders.filter(header => !headers.includes(header))
MissingHeaders(headers, type) ==
  SelectSeq(ExpectedHeaders(type),
            LAMBDA h : \A i \in 1..Len(headers) : headers[i] # h)

\* parseCSV(csv, type): the records of the lines after the header, in input
\* order, or the error it throws
parseCSV(lines, type) ==
  IF Len(lines) < 2
  THEN [error |-> "Failed to parse CSV",
        cause |-> "CSV file is empty or has no data rows", missing |-> <<>>]
  ELSE IF MissingHeaders(HeadersOf(lines), type) # <<>>
  THEN [error |-> "Failed to parse CSV",
        cause |-> "Missing expected headers",
        missing |-> MissingHeaders(HeadersOf(lines), type)]
  ELSE [error |-> "",
        records |-> [i \in 1..(Len(lines) - 1) |->
                       RecordOfLine(HeadersOf(lines), lines[i + 1])]]

\* ---------------------------------------------------- the three reduces
\* getForecastData's condition to overwrite acc[key], src/src/index.ts 102
ReadReplaces(existing, record) ==
  /\ Truthy(record.revision)
  /\ Truthy(existing.revision)
  /\ DateGreater(record.revision, existing.revision)

\* storeForecastData's condition to overwrite acc[key], src/src/index.ts 123
StoreReplaces(existing, record) ==
  /\ Truthy(record.revision)
  /\ \/ ~Truthy(existing.revision)
     \/ DateGreater(record.revision, existing.revision)

\* a comparator that also overwrites with a row that has no revision
ReplacesWithoutRevision(existing, record) ==
  \/ ~Truthy(record.revision)
  \/ ~Truthy(existing.revision)
  \/ DateGreater(record.revision, existing.revision)

\* processCSVChunk's condition to overwrite acc[key], src/src/index.ts 222
ChunkReplaces(existing, record) ==
  /\ Truthy(record.revision)
  /\ \/ ~Truthy(existing.revision)
     \/ DateGreater(record.revision, existing.revision)

\* groupedRecords of getForecastData, as Object.values lists it
RECURSIVE groupedRecords(_)
groupedRecords(filteredRecords) ==
  IF filteredRecords = <<>> THEN <<>>
  ELSE LET acc == groupedRecords(SubSeq(filteredRecords, 1, Len(filteredRecords) - 1))
           record == filteredRecords[Len(filteredRecords)]
           at == SlotOf(acc, KeyOf(record))
       IN IF at = 0 THEN Append(acc, record)
          ELSE IF ReadReplaces(acc[at], record) THEN [acc EXCEPT ![at] = record]
          ELSE acc

\* latestRecords of storeForecastData, as Object.values lists it
RECURSIVE latestRecords(_)
latestRecords(data) ==
  IF data = <<>> THEN <<>>
  ELSE LET acc == latestRecords(SubSeq(data, 1, Len(data) - 1))
           record == data[Len(data)]
           at == SlotOf(acc, KeyOf(record))
       IN IF at = 0 THEN Append(acc, record)
          ELSE IF StoreReplaces(acc[at], record) THEN [acc EXCEPT ![at] = record]
          ELSE acc

\* latestRecords of processCSVChunk with its duplicateRecords counter
RECURSIVE chunkLatest(_)
chunkLatest(records) ==
  IF records = <<>> THEN [latest |-> <<>>, duplicateRecords |-> 0]
  ELSE LET before == chunkLatest(SubSeq(records, 1, Len(records) - 1))
           acc == before.latest
           record == records[Len(records)]
           at == SlotOf(acc, KeyOf(record))
       IN IF at = 0
          THEN [before EXCEPT !.latest = Append(acc, record)]
          ELSE IF ChunkReplaces(acc[at], record)
          THEN [before EXCEPT !.latest = [acc EXCEPT ![at] = record]]
          ELSE [before EXCEPT !.duplicateRecords = @ + 1]

\* ------------------------------------------------------ getForecastData
\* the comparator of the final sort: negative when a goes before b
SortsBefore(a, b) ==
  \/ LocaleLess(a.date, b.date)
  \/ a.date = ToStr(b.date) /\ LocaleLess(a.time, b.time)

\* Array.prototype.sort with that comparator (a stable insertion sort)
RECURSIVE SortRecords(_)
SortRecords(records) ==
  IF records = <<>> THEN <<>>
  ELSE LET sorted == SortRecords(SubSeq(records, 1, Len(records) - 1))
           record == records[Len(records)]
           n == Cardinality({i \in 1..Len(sorted) : ~SortsBefore(record, sorted[i])})
       IN SubSeq(sorted, 1, n) \o <<record>> \o SubSeq(sorted, n + 1, Len(sorted))

\* records.filter(record => record.date >= startDate && record.date <= endDate)
FilterRange(records, startDate, endDate) ==
  SelectSeq(records, LAMBDA record : /\ GreaterEq(record.date, startDate)
                                     /\ GreaterEq(endDate, record.date))

\* the file getForecastData reads for a type
ArchiveName(type) == type \o "_load_fcst_archive.csv"

Absent == <<>>

\* getForecastData(type, startDate, endDate) on the text of its file (Absent
\* when bucket.get returns null): the sorted records, or the error thrown
getForecastData(lines, type, startDate, endDate) ==
  IF lines = Absent
  THEN [error |-> "File not found", cause |-> "", missing |-> <<>>]
  ELSE LET parsed == parseCSV(lines, type)
       IN IF parsed.error # "" THEN parsed
          ELSE [error |-> "",
                records |-> SortRecords(groupedRecords(
                              FilterRange(parsed.records, startDate, endDate)))]

\* ------------------------------------------------------ processCSVChunk
\* fileName.startsWith('load_act') ? 'load'
\*                                 : fileName.split('_')[0].toLowerCase()
\* on the file names of the sample
TypeOfFile(fileName) ==
  CASE fileName = "load_act_archive.csv" -> "load"
    [] fileName = "load_load_fcst_archive.csv" -> "load"
    [] fileName = "d_load_fcst_archive.csv" -> "d"

\* a validation that does not look at the time
IsValidWithoutTime(record) ==
  /\ Truthy(record.date)
  /\ (Truthy(record.load_fcst) \/ Truthy(record.load_act))

\* record.date && record.time && (record.load_fcst || record.load_act)
IsValid(record) ==
  /\ Truthy(record.date)
  /\ Truthy(record.time)
  /\ (Truthy(record.load_fcst) \/ Truthy(record.load_act))

\* lines.slice(startLine, startLine + chunkSize)
Window(lines, startLine, chunkSize) ==
  Slice(lines, startLine, startLine + chunkSize)

\* a result that says hasMore when the window ends with the file
HasMoreInclusive(lines, startLine, chunkSize) ==
  startLine + chunkSize <= Len(lines)

\* a loop that stops one line early
HasMoreOffByOne(lines, startLine, chunkSize) ==
  startLine + chunkSize < Len(lines) - 1

\* startLine + chunkSize < lines.length
HasMore(lines, startLine, chunkSize) == startLine + chunkSize < Len(lines)

\* processCSVChunk up to its call of storeForecastData: the counters, the
\* records it hands over and the fields of its result that it alone decides
ChunkPlan(lines, fileName, startLine, chunkSize) ==
  LET headers == HeadersOf(lines)
      window == Window(lines, startLine, chunkSize)
      parsed == [i \in 1..Len(window) |-> RecordOfLine(headers, window[i])]
      records == SelectSeq(parsed, IsValid)
      grouped == chunkLatest(records)
  IN [type |-> TypeOfFile(fileName),
      window |-> window,
      records |-> records,
      validRecords |-> Len(records),
      invalidRecords |-> Len(parsed) - Len(records),
      duplicateRecords |-> grouped.duplicateRecords,
      latest |-> grouped.latest,
      processedLines |-> chunkSize,
      hasMore |-> HasMore(lines, startLine, chunkSize)]

\* ---------------------------------------------------- storeForecastData
\* type === 'load' ? 'load_act' : `${type}_load_fcst`
TableName(type) == IF type = "load" THEN "load_act" ELSE type \o "_load_fcst"

\* type === 'load' ? 'load_act' : 'load_fcst'
FieldName(type) == IF type = "load" THEN "load_act" ELSE "load_fcst"

\* record[fieldName]
ValueOf(type, record) ==
  IF type = "load" THEN record.load_act ELSE record.load_fcst

\* the tables clearDatabase knows, src/src/index.ts 168
Tables == {"d_load_fcst", "j_load_fcst", "mm_load_fcst", "mw_load_fcst", "load_act"}

\* the row an INSERT OR REPLACE binds: (date, time, value) into load_act,
\* (date, time, value, revision) into a forecast table
RowOf(type, record) ==
  IF type = "load"
  THEN [date |-> record.date, time |-> record.time,
        load_act |-> record.load_act]
  ELSE [date |-> record.date, time |-> record.time,
        load_fcst |-> record.load_fcst, revision |-> record.revision]

\* INSERT OR IGNORE: a row whose key the table holds is left as it is
InsertOrIgnore(rows, row) ==
  IF \E old \in rows : old.date = row.date /\ old.time = row.time
  THEN rows ELSE rows \cup {row}

\* INSERT OR REPLACE INTO a table whose key is (date, time)
InsertOrReplace(rows, row) ==
  {old \in rows : ~(old.date = row.date /\ old.time = row.time)} \cup {row}

\* --------------------------------------------------------------- samples
Headers == {FcstHeader, FcstHeaderNoRevision, ActHeader}

LineSample ==
  {LineA, LineB, LineOther, LineNoRev, LineEmpty, LineBlankValue,
   LineBadRev, LineJoin1, LineJoin2}

FileNames ==
  {"d_load_fcst_archive.csv", "load_act_archive.csv", "load_load_fcst_archive.csv"}

Types == {"d", "load"}

Dates == {"2024-01-01", "2024-01-02"}

\* the sequences over S of at most n elements
SeqUpTo(S, n) == UNION {[1..k -> S] : k \in 0..n}

\* the texts of at most n data lines under a header of the sample
Texts(n) == {<<h>> \o body : h \in Headers, body \in SeqUpTo(LineSample, n)}

\* ------------------------------------------------------------ idle state
NoFold ==
  [lines |-> <<FcstHeader>>, op |-> "none", type |-> "", startDate |-> "",
   endDate |-> "", input |-> <<>>, output |-> <<>>, error |-> "",
   cause |-> "", missing |-> <<>>]

NoDrive == [chunkSize |-> 0]

Slots == {1, 2}

EmptyDb == [t \in Tables |-> {}]

\* a slot that serves no request
NoCall ==
  [pc |-> "idle", op |-> "", fileName |-> "", startLine |-> 0, chunkSize |-> 0,
   type |-> "", startDate |-> "", endDate |-> "", error |-> "",
   data |-> <<>>, records |-> <<>>, i |-> 1, insertedCount |-> 0,
   errorCount |-> 0, failed |-> {}, validRecords |-> 0, invalidRecords |-> 0,
   duplicateRecords |-> 0, processedLines |-> 0, hasMore |-> FALSE,
   rows |-> <<>>, before |-> EmptyDb, after |-> EmptyDb, slot |-> 0]

\* ------------------------------------------- the pure functions, applied
\* Each behaviour draws one text and applies one of the functions to it.
InitFold ==
  /\ bucket = [n \in FileNames |-> Absent]
  /\ db = EmptyDb
  /\ req = [r \in Slots |-> NoCall]
  /\ done = <<>>
  /\ drive = NoDrive
  /\ \E lines \in Texts(MaxFoldLines) : fold = [NoFold EXCEPT !.lines = lines]

AllRecords(lines) ==
  [i \in 1..(Len(lines) - 1) |-> RecordOfLine(HeadersOf(lines), lines[i + 1])]

\* the reduce of processCSVChunk on the valid records of the whole text
FoldChunk ==
  /\ fold.op = "none"
  /\ fold' = [fold EXCEPT
        !.op = "chunk", !.type = "", !.startDate = "", !.endDate = "", !.error = "",
        !.input = SelectSeq(AllRecords(fold.lines), IsValid),
        !.output = chunkLatest(SelectSeq(AllRecords(fold.lines), IsValid)).latest]
  /\ UNCHANGED <<bucket, db, req, done, drive>>

\* the reduce of storeForecastData on the records of the whole text
FoldStore ==
  /\ fold.op = "none"
  /\ fold' = [fold EXCEPT
        !.op = "store", !.type = "", !.startDate = "", !.endDate = "", !.error = "",
        !.input = AllRecords(fold.lines),
        !.output = latestRecords(AllRecords(fold.lines))]
  /\ UNCHANGED <<bucket, db, req, done, drive>>

\* getForecastData on the text; input is what its reduce is given
FoldQuery ==
  /\ fold.op = "none"
  /\ \E type \in Types, startDate \in Dates, endDate \in Dates :
       LET got == getForecastData(fold.lines, type, startDate, endDate)
       IN fold' = [fold EXCEPT
            !.op = "query", !.type = type, !.startDate = startDate,
            !.endDate = endDate, !.error = got.error,
            !.input = IF got.error = ""
                      THEN FilterRange(parseCSV(fold.lines, type).records,
                                       startDate, endDate)
                      ELSE <<>>,
            !.output = IF got.error = "" THEN got.records ELSE <<>>]
  /\ UNCHANGED <<bucket, db, req, done, drive>>

NextFold == FoldChunk \/ FoldStore \/ FoldQuery

SpecFold == InitFold /\ [][NextFold]_vars

\* ------------------------------------------ claims on the three reduces
PairOf(record) == <<record.date, record.time>>

Range(seq) == {seq[i] : i \in 1..Len(seq)}

\* The order of revisions the claims speak of: revisions as strings, in
\* lexical order, a missing revision below them all.  On RevA and RevB it
\* is also the order of the instants they name.
RevisionRank(revision) ==
  CASE revision = RevA -> 1
    [] revision = RevB -> 2
    [] revision = RevX -> 3
    [] OTHER -> 0

FoldApplied == fold.op \in {"chunk", "store", "query"} /\ fold.error = ""

\* C3: for rows that each carry a revision, every reduce (chunk processor,
\* storage writer, range reader) returns exactly one row per distinct
\* (date, time) of its input, and that row carries the greatest revision
\* among the input rows of that (date, time).
C3_LatestRevisionWins ==
  (FoldApplied /\ \A record \in Range(fold.input) : Truthy(record.revision))
  => /\ Range(fold.output) \subseteq Range(fold.input)
     /\ \A record \in Range(fold.input) :
          /\ Cardinality({i \in 1..Len(fold.output) :
                            PairOf(fold.output[i]) = PairOf(record)}) = 1
          /\ \A out \in Range(fold.output) :
               PairOf(out) = PairOf(record)
               => RevisionRank(out.revision) >= RevisionRank(record.revision)

\* C6 as claimed: among ActualLoad rows (a load_act value, no revision) that
\* share (date, time), the reduces of the write path return the one seen last.
C6_LastSeenWins ==
  (/\ fold.op \in {"chunk", "store"}
   /\ \A record \in Range(fold.input) :
        ~Truthy(record.revision) /\ Truthy(record.load_act))
  => \A i \in 1..Len(fold.input) :
       (\A j \in (i + 1)..Len(fold.input) :
          PairOf(fold.input[j]) # PairOf(fold.input[i]))
       => fold.input[i] \in Range(fold.output)

\* C6 as amended: among rows that carry no revision, every reduce returns,
\* for each key string `${date}_${time}` of its input, exactly the row seen
\* first with that key string.
C6_FirstSeenWins ==
  (FoldApplied /\ \A record \in Range(fold.input) : ~Truthy(record.revision))
  => /\ \A i \in 1..Len(fold.input) :
          (\A j \in 1..(i - 1) : KeyOf(fold.input[j]) # KeyOf(fold.input[i]))
          => fold.input[i] \in Range(fold.output)
     /\ \A i \in 1..Len(fold.output) :
          \E j \in 1..Len(fold.input) :
            /\ fold.input[j] = fold.output[i]
            /\ \A k \in 1..(j - 1) : KeyOf(fold.input[k]) # KeyOf(fold.input[j])
     /\ \A i, j \in 1..Len(fold.output) :
          KeyOf(fold.output[i]) = KeyOf(fold.output[j]) => i = j

\* two ActualLoad rows share (date, time), differ in their value, and
\* a reduce of the write path has been applied to them
C6_Witness ==
  /\ fold.op \in {"chunk", "store"}
  /\ \A record \in Range(fold.input) :
       ~Truthy(record.revision) /\ Truthy(record.load_act)
  /\ \E i, j \in 1..Len(fold.input) :
       /\ i < j
       /\ PairOf(fold.input[i]) = PairOf(fold.input[j])
       /\ fold.input[i] # fold.input[j]
       /\ fold.input[i] \in Range(fold.output)
       /\ fold.input[j] \notin Range(fold.output)

\* C7: queryRange returns exactly one row per (date, time) among the rows of
\* the file with startDate <= date <= endDate, that row is the row of the
\* latest revision of its (date, time), no returned row lies outside the
\* range, and the list ascends by (date, time).
C7_RangeFilterCorrect ==
  (fold.op = "query" /\ fold.error = "")
  => LET rows == {record \in Range(AllRecords(fold.lines)) :
                     /\ GreaterEq(record.date, fold.startDate)
                     /\ GreaterEq(fold.endDate, record.date)}
     IN /\ Range(fold.output) \subseteq rows
        /\ \A record \in rows :
             /\ Cardinality({i \in 1..Len(fold.output) :
                               PairOf(fold.output[i]) = PairOf(record)}) = 1
             /\ \A out \in Range(fold.output) :
                  PairOf(out) = PairOf(record)
                  => RevisionRank(out.revision) >= RevisionRank(record.revision)
        /\ \A i \in 1..(Len(fold.output) - 1) :
             SortsBefore(fold.output[i], fold.output[i + 1])

\* ------------------------------------------------ the worker's requests
\* One request runs in a slot.  A request is suspended only at an await:
\* the reads of the bucket (the file does not change) and each run() of an
\* INSERT OR REPLACE.  done lists the finished calls in order of completion.
BucketLines == {LineA, LineB, LineOther, LineNoRev, LineEmpty}

BucketTexts ==
  {<<h>> \o body : h \in Headers, body \in SeqUpTo(BucketLines, MaxLines)}

\* a database that earlier calls have filled
SeededDb ==
  [EmptyDb EXCEPT
     !["d_load_fcst"] =
        {[date |-> "2024-01-01", time |-> "00:00", load_fcst |-> "90",
          revision |-> RevB],
         [date |-> "2024-01-03", time |-> "00:00", load_fcst |-> "95",
          revision |-> RevA]},
     !["load_act"] =
        {[date |-> "2024-01-01", time |-> "00:00", load_act |-> "80"]}]

Init ==
  /\ \E name \in FileNames, text \in BucketTexts :
       bucket = [n \in FileNames |-> IF n = name THEN text ELSE Absent]
  /\ db \in {EmptyDb, SeededDb}
  /\ req = [r \in Slots |-> NoCall]
  /\ done = <<>>
  /\ fold = NoFold
  /\ drive = NoDrive

\* the caller of slot r makes one call and, after a processCSVChunk that
\* returned, may re-invoke it with the same arguments
CanCall(r) ==
  /\ req[r].pc = "idle"
  /\ \A n \in 1..Len(done) : done[n].slot # r

\* the call goes on to its next record, or returns once the for loop of
\* storeForecastData has no record left
Proceed(r, call, newDb) ==
  /\ db' = newDb
  /\ IF call.i > Len(call.records)
     THEN /\ req' = [req EXCEPT ![r] = NoCall]
          /\ done' = Append(done, [call EXCEPT !.pc = "done", !.after = newDb])
     ELSE /\ req' = [req EXCEPT ![r] = call]
          /\ done' = done

\* a processCSVChunk that takes a missing file for an empty one
ProcessChunkMissingAsEmpty(r, fileName, startLine, chunkSize) ==
  /\ CanCall(r)
  /\ bucket[fileName] = Absent
  /\ done' = Append(done,
       [NoCall EXCEPT !.pc = "done", !.slot = r, !.op = "chunk", !.fileName = fileName,
                      !.startLine = startLine, !.chunkSize = chunkSize,
                      !.processedLines = chunkSize,
                      !.before = db, !.after = db])
  /\ UNCHANGED <<bucket, db, req, fold, drive>>

\* processCSVChunk when bucket.get(fileName) returns null: throws
ProcessChunkNotFound(r, fileName, startLine, chunkSize) ==
  /\ CanCall(r)
  /\ bucket[fileName] = Absent
  /\ done' = Append(done,
       [NoCall EXCEPT !.pc = "done", !.slot = r, !.op = "chunk", !.fileName = fileName,
                      !.startLine = startLine, !.chunkSize = chunkSize,
                      !.error = "File not found", !.before = db, !.after = db])
  /\ UNCHANGED <<bucket, db, req, fold, drive>>

\* processCSVChunk up to the first run() of storeForecastData
ProcessChunkStart(r, fileName, startLine, chunkSize) ==
  /\ CanCall(r)
  /\ bucket[fileName] # Absent
  /\ LET plan == ChunkPlan(bucket[fileName], fileName, startLine, chunkSize)
     IN Proceed(r,
          [NoCall EXCEPT !.pc = "store", !.slot = r, !.op = "chunk", !.fileName = fileName,
                         !.startLine = startLine, !.chunkSize = chunkSize,
                         !.type = plan.type, !.data = plan.latest,
                         !.records = latestRecords(plan.latest),
                         !.validRecords = plan.validRecords,
                         !.invalidRecords = plan.invalidRecords,
                         !.duplicateRecords = plan.duplicateRecords,
                         !.processedLines = plan.processedLines,
                         !.hasMore = plan.hasMore, !.before = db],
          db)
  /\ UNCHANGED <<bucket, fold, drive>>

\* the caller repeats the processCSVChunk call that has just returned
Reinvoke(r) ==
  /\ req[r].pc = "idle"
  /\ Len(done) = 1
  /\ done[1].slot = r
  /\ done[1].op = "chunk"
  /\ done[1].error = ""
  /\ LET fileName == done[1].fileName
         startLine == done[1].startLine
         chunkSize == done[1].chunkSize
         plan == ChunkPlan(bucket[fileName], fileName, startLine, chunkSize)
     IN Proceed(r,
          [NoCall EXCEPT !.pc = "store", !.slot = r, !.op = "chunk", !.fileName = fileName,
                         !.startLine = startLine, !.chunkSize = chunkSize,
                         !.type = plan.type, !.data = plan.latest,
                         !.records = latestRecords(plan.latest),
                         !.validRecords = plan.validRecords,
                         !.invalidRecords = plan.invalidRecords,
                         !.duplicateRecords = plan.duplicateRecords,
                         !.processedLines = plan.processedLines,
                         !.hasMore = plan.hasMore, !.before = db],
          db)
  /\ UNCHANGED <<bucket, fold, drive>>

\* storeForecastData called by the webhook, up to its first run()
StoreStart(r, type, data) ==
  /\ CanCall(r)
  /\ Proceed(r,
       [NoCall EXCEPT !.pc = "store", !.slot = r, !.op = "store", !.type = type,
                      !.data = data, !.records = latestRecords(data),
                      !.before = db],
       db)
  /\ UNCHANGED <<bucket, fold, drive>>

Storing(r) == req[r].pc = "store" /\ req[r].i <= Len(req[r].records)

\* one turn of the for loop on a record whose value is undefined: a warning
SkipRecord(r) ==
  /\ Storing(r)
  /\ ValueOf(req[r].type, req[r].records[req[r].i]) = Undefined
  /\ Proceed(r, [req[r] EXCEPT !.i = @ + 1], db)
  /\ UNCHANGED <<bucket, fold, drive>>

\* an upsert that empties the table before it inserts
RunSucceedsTruncating(r) ==
  /\ Storing(r)
  /\ ValueOf(req[r].type, req[r].records[req[r].i]) # Undefined
  /\ TableName(req[r].type) \in Tables
  /\ Proceed(r,
       [req[r] EXCEPT !.i = @ + 1, !.insertedCount = @ + 1],
       [db EXCEPT ![TableName(req[r].type)] =
          {RowOf(req[r].type, req[r].records[req[r].i])}])
  /\ UNCHANGED <<bucket, fold, drive>>

\* a loop that counts an upsert only when it changes the table
RunSucceedsCountingChanges(r) ==
  /\ Storing(r)
  /\ ValueOf(req[r].type, req[r].records[req[r].i]) # Undefined
  /\ TableName(req[r].type) \in Tables
  /\ Proceed(r,
       [req[r] EXCEPT !.i = @ + 1,
          !.insertedCount =
             IF RowOf(req[r].type, req[r].records[req[r].i])
                  \in db[TableName(req[r].type)]
             THEN @ ELSE @ + 1],
       [db EXCEPT ![TableName(req[r].type)] =
          InsertOrReplace(@, RowOf(req[r].type, req[r].records[req[r].i]))])
  /\ UNCHANGED <<bucket, fold, drive>>

\* one turn of the for loop whose run() succeeds
RunSucceeds(r) ==
  /\ Storing(r)
  /\ ValueOf(req[r].type, req[r].records[req[r].i]) # Undefined
  /\ TableName(req[r].type) \in Tables
  /\ Proceed(r,
       [req[r] EXCEPT !.i = @ + 1, !.insertedCount = @ + 1],
       [db EXCEPT ![TableName(req[r].type)] =
          InsertOrReplace(@, RowOf(req[r].type, req[r].records[req[r].i]))])
  /\ UNCHANGED <<bucket, fold, drive>>

\* a loop without the try/catch: the first run() that raises ends the call
RunRaisesAborts(r) ==
  /\ Storing(r)
  /\ ValueOf(req[r].type, req[r].records[req[r].i]) # Undefined
  /\ req' = [req EXCEPT ![r] = NoCall]
  /\ done' = Append(done,
       [req[r] EXCEPT !.pc = "done", !.error = "Error inserting record",
                      !.failed = @ \cup {req[r].i}, !.after = db])
  /\ UNCHANGED <<bucket, db, fold, drive>>

\* one turn of the for loop whose run() raises: caught and counted
RunRaises(r) ==
  /\ Storing(r)
  /\ ValueOf(req[r].type, req[r].records[req[r].i]) # Undefined
  /\ Proceed(r,
       [req[r] EXCEPT !.i = @ + 1, !.errorCount = @ + 1,
                      !.failed = @ \cup {req[r].i}],
       db)
  /\ UNCHANGED <<bucket, fold, drive>>

\* the request is dropped while it awaits a run(): the loop stops there,
\* what it has written stays, nothing is returned; failed takes the records
\* the loop did not get to
Abandon(r) ==
  /\ Storing(r)
  /\ req[r].op = "chunk"
  /\ req' = [req EXCEPT ![r] = NoCall]
  /\ done' = Append(done,
       [req[r] EXCEPT !.pc = "abandoned",
                      !.failed = @ \cup (req[r].i..Len(req[r].records)),
                      !.after = db])
  /\ UNCHANGED <<bucket, db, fold, drive>>

\* getForecastData, whole: it writes nothing
Query(r, type, startDate, endDate) ==
  /\ CanCall(r)
  /\ LET got == getForecastData(bucket[ArchiveName(type)], type, startDate, endDate)
     IN done' = Append(done,
          [NoCall EXCEPT !.pc = "done", !.slot = r, !.op = "query", !.type = type,
                         !.fileName = ArchiveName(type),
                         !.startDate = startDate, !.endDate = endDate,
                         !.error = got.error,
                         !.rows = IF got.error = "" THEN got.records ELSE <<>>,
                         !.before = db, !.after = db])
  /\ UNCHANGED <<bucket, db, req, fold, drive>>

\* clearDatabase, whole
ClearDatabase(r) ==
  /\ CanCall(r)
  /\ db' = EmptyDb
  /\ done' = Append(done,
       [NoCall EXCEPT !.pc = "done", !.slot = r, !.op = "clear", !.before = db,
                      !.after = EmptyDb])
  /\ UNCHANGED <<bucket, req, fold, drive>>

StartLines == 1..MaxStart

ChunkSizes == 1..MaxChunk

\* the worker serving one request at a time
Next ==
  \/ \E fileName \in FileNames, startLine \in StartLines, chunkSize \in ChunkSizes :
       \/ ProcessChunkNotFound(1, fileName, startLine, chunkSize)
       \/ ProcessChunkStart(1, fileName, startLine, chunkSize)
  \/ SkipRecord(1)
  \/ RunSucceeds(1)
  \/ RunRaises(1)
  \/ \E type \in Types, startDate \in Dates, endDate \in Dates :
       Query(1, type, startDate, endDate)
  \/ ClearDatabase(1)
  \/ Reinvoke(1)
  \/ Abandon(1)

Spec == Init /\ [][Next]_vars

\* ------------------------------------------- the webhook's storeRecords
\* records of a webhook payload
RecA == ForecastRecord("2024-01-01", "00:00", "100", Undefined, RevA)
RecB == ForecastRecord("2024-01-01", "00:00", "105", Undefined, RevB)
RecOther == ForecastRecord("2024-01-02", "01:00", "110", Undefined, RevA)
RecNoValue == ForecastRecord("2024-01-01", "00:00", Undefined, Undefined, RevB)
RecEmptyValue == ForecastRecord("2024-01-02", "01:00", "", Undefined, RevB)
RecAct == ForecastRecord("2024-01-01", "00:00", Undefined, "200", Undefined)

PayloadSample == {RecA, RecB, RecOther, RecNoValue, RecEmptyValue, RecAct}

\* the type of a webhook payload: a forecast source, the actual load, or a
\* type that has no table
PayloadTypes == {"d", "load", "x"}

InitStore ==
  /\ bucket = [n \in FileNames |-> Absent]
  /\ db \in {EmptyDb, SeededDb}
  /\ req = [r \in Slots |-> NoCall]
  /\ done = <<>>
  /\ fold = NoFold
  /\ drive = NoDrive

NextStore ==
  \/ \E type \in PayloadTypes, data \in SeqUpTo(PayloadSample, MaxPayload) :
       StoreStart(1, type, data)
  \/ SkipRecord(1)
  \/ RunSucceeds(1)
  \/ RunRaises(1)

SpecStore == InitStore /\ [][NextStore]_vars

\* ------------------------------------------------- claims on the calls
Done == Range(done)

\* the rows of a table that have the (date, time) of a record
RowsAt(rows, record) ==
  {row \in rows : row.date = record.date /\ row.time = record.time}

\* the records of a finished call that had a value and whose run() did not raise
Upserted(call) ==
  {i \in 1..Len(call.records) :
     ValueOf(call.type, call.records[i]) # Undefined /\ i \notin call.failed}

\* C5: a processChunk repeated with the same arguments on the unchanged
\* file, no upsert failing in either run, leaves the tables as the first
\* run left them and returns the same insertedCount.
C5_IdempotentRerun ==
  (/\ Len(done) = 2
   /\ done[1].op = "chunk" /\ done[2].op = "chunk"
   /\ done[1].fileName = done[2].fileName
   /\ done[1].startLine = done[2].startLine
   /\ done[1].chunkSize = done[2].chunkSize
   /\ done[1].failed = {} /\ done[2].failed = {})
  => /\ done[2].after = done[1].after
     /\ db = done[1].after
     /\ done[2].insertedCount = done[1].insertedCount

\* both runs are over, neither met a failure, and the first changed a table
C5_Witness ==
  /\ Len(done) = 2
  /\ done[1].failed = {} /\ done[2].failed = {}
  /\ done[1].after # done[1].before
  /\ done[2].insertedCount > 0

\* C8: whichever of its upserts raise, storeRecords returns normally, has
\* upserted every other resolved record that has a value, has left the row
\* at the key of each failed record as it was, and returns the number of
\* upserts that succeeded.
C8_BestEffortBatch ==
  \A call \in Done :
    call.op = "store"
    => /\ call.error = ""
       /\ call.insertedCount = Cardinality(Upserted(call))
       /\ call.failed \subseteq 1..Len(call.records)
       /\ \A i \in Upserted(call) :
            RowOf(call.type, call.records[i]) \in call.after[TableName(call.type)]
       /\ \A i \in call.failed :
            TableName(call.type) \in Tables
            => RowsAt(call.after[TableName(call.type)], call.records[i])
                 = RowsAt(call.before[TableName(call.type)], call.records[i])

\* a storeRecords has returned after an upsert that raised on a key the
\* table held and a later upsert that succeeded
C8_Witness ==
  \E call \in Done :
    /\ call.op = "store"
    /\ \E i \in call.failed, j \in Upserted(call) :
         /\ i < j
         /\ RowsAt(call.before[TableName(call.type)], call.records[i]) # {}

\* C9: a processChunk on a file whose header lacks a column its kind
\* requires fails, and issues no upsert.
C9_SchemaFailureAborts ==
  /\ \A call \in Done :
       (/\ call.op = "chunk"
        /\ bucket[call.fileName] # Absent
        /\ MissingHeaders(HeadersOf(bucket[call.fileName]),
                          TypeOfFile(call.fileName)) # <<>>)
       => /\ call.error # ""
          /\ call.after = call.before
          /\ call.insertedCount = 0
  /\ \A r \in Slots :
       (req[r].pc = "store" /\ req[r].op = "chunk")
       => MissingHeaders(HeadersOf(bucket[req[r].fileName]),
                         TypeOfFile(req[r].fileName)) = <<>>

\* C10: processChunk and queryRange on a file the bucket does not hold fail
\* with 'File not found' before anything else: no record is parsed, no
\* upsert is issued, no table changes.
C10_NotFoundFailsFast ==
  /\ \A call \in Done :
       (call.op \in {"chunk", "query"} /\ bucket[call.fileName] = Absent)
       => /\ call.error = "File not found"
          /\ call.after = call.before
          /\ db = call.before
          /\ call.records = <<>>
          /\ call.rows = <<>>
          /\ call.insertedCount = 0
          /\ call.errorCount = 0
  /\ \A r \in Slots :
       req[r].pc = "store" /\ req[r].op = "chunk"
       => bucket[req[r].fileName] # Absent

\* a processChunk on a missing file has failed over tables that hold rows
C10_Witness ==
  \E call \in Done :
    /\ call.op = "chunk"
    /\ bucket[call.fileName] = Absent
    /\ call.error = "File not found"
    /\ call.before = SeededDb
    /\ db = SeededDb

\* --------------------------------------------- the caller's drive loop
\* storeForecastData(type, records) when every run() succeeds: the tables
\* after its for loop and its insertedCount
RECURSIVE StoreAll(_, _, _)
StoreAll(tables, type, records) ==
  IF records = <<>> THEN [db |-> tables, insertedCount |-> 0]
  ELSE LET before == StoreAll(tables, type, SubSeq(records, 1, Len(records) - 1))
           record == records[Len(records)]
       IN IF ValueOf(type, record) = Undefined THEN before
          ELSE [db |-> [before.db EXCEPT ![TableName(type)] =
                          InsertOrReplace(@, RowOf(type, record))],
                insertedCount |-> before.insertedCount + 1]

DriveNames == {"d_load_fcst_archive.csv", "load_act_archive.csv"}

DriveTexts ==
  {<<h>> \o body :
     h \in Headers,
     body \in SeqUpTo(BucketLines \cup {LineBlankValue}, MaxDriveLines)}

\* The caller of /api/process-csv and /api/continue-csv-processing: it calls
\* processCSVChunk with startLine = 1 and goes on with startLine + chunkSize
\* while the result says hasMore.  seen[p] counts the windows that held the
\* line at position p (the header is at position 1).
InitDrive ==
  /\ \E name \in DriveNames, text \in DriveTexts, chunkSize \in 1..MaxChunk :
       /\ bucket = [n \in FileNames |-> IF n = name THEN text ELSE Absent]
       /\ drive = [fileName |-> name, chunkSize |-> chunkSize, startLine |-> 1,
                   hasMore |-> TRUE, calls |-> 0, validRecords |-> 0,
                   invalidRecords |-> 0, insertedCount |-> 0,
                   seen |-> [p \in 1..Len(text) |-> 0]]
  /\ db = EmptyDb
  /\ req = [r \in Slots |-> NoCall]
  /\ done = <<>>
  /\ fold = NoFold

\* one processCSVChunk of the loop, whole, every run() succeeding
DriveCall ==
  /\ drive.hasMore
  /\ LET lines == bucket[drive.fileName]
         plan == ChunkPlan(lines, drive.fileName, drive.startLine, drive.chunkSize)
         stored == StoreAll(db, plan.type, latestRecords(plan.latest))
         held == Range(Window([p \in 1..Len(lines) |-> p],
                              drive.startLine, drive.chunkSize))
     IN /\ db' = stored.db
        /\ drive' = [drive EXCEPT
             !.startLine = @ + drive.chunkSize,
             !.hasMore = plan.hasMore,
             !.calls = @ + 1,
             !.validRecords = @ + plan.validRecords,
             !.invalidRecords = @ + plan.invalidRecords,
             !.insertedCount = @ + stored.insertedCount,
             !.seen = [p \in 1..Len(lines) |->
                         IF p \in held THEN drive.seen[p] + 1 ELSE drive.seen[p]]]
  /\ UNCHANGED <<bucket, req, done, fold>>

NextDrive == DriveCall

SpecDrive == InitDrive /\ [][NextDrive]_vars

DriveOver == drive.chunkSize > 0 /\ ~drive.hasMore

DriveLines == bucket[drive.fileName]

\* the positions of the data lines that satisfy the validity predicate
ValidLines(lines) ==
  {p \in 2..Len(lines) : IsValid(RecordOfLine(HeadersOf(lines), lines[p]))}

\* C2: once the loop has gone through a LoadForecast file (every valid row
\* of it has a revision), from an empty table, the table holds for every
\* (date, time) of a valid row of the file exactly one row, the file's row
\* of the greatest revision at that key.
C2_TableHoldsLatestRevision ==
  (/\ DriveOver
   /\ drive.fileName = "d_load_fcst_archive.csv"
   /\ HeadersOf(DriveLines) = FcstHeader
   /\ \A p \in ValidLines(DriveLines) :
        Truthy(RecordOfLine(FcstHeader, DriveLines[p]).revision))
  => \A p \in ValidLines(DriveLines) :
       LET record == RecordOfLine(FcstHeader, DriveLines[p])
           stored == RowsAt(db["d_load_fcst"], record)
       IN /\ Cardinality(stored) = 1
          /\ \A row \in stored :
               /\ \E q \in ValidLines(DriveLines) :
                    row = RowOf("d", RecordOfLine(FcstHeader, DriveLines[q]))
               /\ \A q \in ValidLines(DriveLines) :
                    PairOf(RecordOfLine(FcstHeader, DriveLines[q])) = PairOf(record)
                    => RevisionRank(row.revision)
                         >= RevisionRank(RecordOfLine(FcstHeader, DriveLines[q]).revision)

\* C4: no data line is in two windows of the loop; once the loop is over
\* every data line has been in exactly one window, the header in none, and
\* the validRecords of the calls add up to the number of valid lines.
C4_ChunksExhaustive ==
  /\ drive.chunkSize > 0 => \A p \in 1..Len(DriveLines) : drive.seen[p] <= 1
  /\ DriveOver
     => /\ drive.seen[1] = 0
        /\ \A p \in 2..Len(DriveLines) : drive.seen[p] = 1
        /\ drive.validRecords = Cardinality(ValidLines(DriveLines))

\* the loop is over after more than one call, on a file where a window
\* held both a valid and an invalid line
C4_Witness ==
  /\ DriveOver
  /\ drive.calls >= 2
  /\ drive.chunkSize >= 2
  /\ drive.validRecords >= 1
  /\ drive.invalidRecords >= 1

\* ------------------------------------------------ two concurrent calls
ConcLines == {LineA, LineB, LineOther}

ConcTexts ==
  {<<h>> \o body : h \in {FcstHeader, ActHeader},
                   body \in SeqUpTo(ConcLines, MaxLines)}

\* Two callers, each with one processCSVChunk on the file of the bucket; the
\* worker takes up the other request whenever one awaits a run().
InitConc ==
  /\ \E name \in DriveNames, text \in ConcTexts :
       bucket = [n \in FileNames |-> IF n = name THEN text ELSE Absent]
  /\ db = EmptyDb
  /\ req = [r \in Slots |-> NoCall]
  /\ done = <<>>
  /\ fold = NoFold
  /\ drive = NoDrive

NextConc ==
  \E r \in Slots :
    \/ \E fileName \in FileNames, startLine \in StartLines, chunkSize \in ChunkSizes :
         ProcessChunkStart(r, fileName, startLine, chunkSize)
    \/ SkipRecord(r)
    \/ RunSucceeds(r)
    \/ RunRaises(r)

SpecConc == InitConc /\ [][NextConc]_vars

\* the positions of the lines in the window of a call
Held(call) ==
  Range(Window([p \in 1..Len(bucket[call.fileName]) |-> p],
               call.startLine, call.chunkSize))

\* C1: two processChunk calls on one file whose windows overlap or hold rows
\* of a common (date, time), no upsert failing and every revision a date,
\* leave the tables the same in either order and under every interleaving
\* of their upserts: here, as the first caller's call followed by the second
\* caller's leaves them.
C1_OrderIndependent ==
  (/\ Len(done) = 2
   /\ done[1].failed = {} /\ done[2].failed = {}
   /\ \A rec \in Range(done[1].records) \cup Range(done[2].records) :
        DateTime(rec.revision) # 0
   /\ \/ Held(done[1]) \cap Held(done[2]) # {}
      \/ \E a \in Range(done[1].records), b \in Range(done[2].records) :
           PairOf(a) = PairOf(b))
  => LET first == IF done[1].slot = 1 THEN done[1] ELSE done[2]
         second == IF done[1].slot = 1 THEN done[2] ELSE done[1]
     IN db = StoreAll(StoreAll(EmptyDb, first.type, first.records).db,
                      second.type, second.records).db

\* ------------------------------------------------------ parseCSV, applied
\* header lines: the expected ones, the columns in another order, a column
\* the record does not have, both value columns, no column at all
FcstHeaderReordered == <<"revision", "load_fcst", "time", "date">>
ActHeaderExtra == <<"date", "note", "time", "load_act">>
BothHeader == <<"date", "time", "load_fcst", "load_act", "revision">>
NoHeader == <<"">>

ParseHeaders ==
  {FcstHeader, FcstHeaderNoRevision, ActHeader, FcstHeaderReordered,
   ActHeaderExtra, BothHeader, NoHeader}

ParseLines == {LineA, LineB, LineNoRev, LineEmpty, LineBlankValue}

\* Each behaviour draws one text and parses it for one type.
InitParse ==
  /\ bucket = [n \in FileNames |-> Absent]
  /\ db = EmptyDb
  /\ req = [r \in Slots |-> NoCall]
  /\ done = <<>>
  /\ drive = NoDrive
  /\ \E h \in ParseHeaders, body \in SeqUpTo(ParseLines, MaxFoldLines) :
       fold = [NoFold EXCEPT !.lines = <<h>> \o body]

\* parseCSV(csv, type) on the text
FoldParse ==
  /\ fold.op = "none"
  /\ \E type \in Types :
       LET parsed == parseCSV(fold.lines, type)
       IN fold' = [fold EXCEPT
            !.op = "parse", !.type = type, !.error = parsed.error,
            !.cause = IF parsed.error = "" THEN "" ELSE parsed.cause,
            !.missing = IF parsed.error = "" THEN <<>> ELSE parsed.missing,
            !.output = IF parsed.error = "" THEN parsed.records ELSE <<>>]
  /\ UNCHANGED <<bucket, db, req, done, drive>>

NextParse == FoldParse

SpecParse == InitParse /\ [][NextParse]_vars

\* the columns a kind requires
RequiredColumns(type) ==
  IF type = "load" THEN {"date", "time", "load_act"}
  ELSE {"date", "time", "load_fcst", "revision"}

\* the cell of a line under the column of that name, as the record holds it
CellUnder(lines, p, name) ==
  LET c == CHOOSE i \in 1..Len(lines[1]) : lines[1][i] = name
  IN IF c <= Len(lines[p]) /\ lines[p][c] # "" THEN Trim(lines[p][c])
     ELSE Undefined

\* C11: on a text of at least 2 lines parseCSV fails, naming the missing
\* columns, exactly when the header lacks a column its kind requires,
\* wherever the columns stand and whatever other columns there are; when it
\* succeeds it returns one record per line after the header, in input order.
C11_HeaderRejection ==
  (fold.op = "parse" /\ Len(fold.lines) >= 2)
  => LET lacking == RequiredColumns(fold.type) \ Range(fold.lines[1])
     IN /\ (fold.error # "") <=> (lacking # {})
        /\ fold.error # ""
           => /\ fold.cause = "Missing expected headers"
              /\ Range(fold.missing) = lacking
              /\ fold.output = <<>>
        /\ fold.error = ""
           => /\ Len(fold.output) = Len(fold.lines) - 1
              /\ \A i \in 1..Len(fold.output) :
                   /\ fold.output[i].date = CellUnder(fold.lines, i + 1, "date")
                   /\ fold.output[i].time = CellUnder(fold.lines, i + 1, "time")
                   /\ \A name \in RequiredColumns(fold.type) \ {"date", "time"} :
                        fold.output[i][name] = CellUnder(fold.lines, i + 1, name)

\* a text whose header has the columns out of their expected order, or one
\* more column, has been parsed into the records of its two or more lines
C11_Witness ==
  /\ fold.op = "parse"
  /\ fold.error = ""
  /\ fold.lines[1] \in {FcstHeaderReordered, ActHeaderExtra}
  /\ Len(fold.output) >= 2
  /\ \E i \in 1..Len(fold.output) : Truthy(fold.output[i].date)

\* C12: on every sequence of rows the reduce of the read path keeps the same
\* row per key as the reduces of the write path (storeForecastData and
\* processCSVChunk) do.
C12_ReadWriteDedupAgree ==
  fold.op \in {"store", "chunk"}
  => Range(groupedRecords(fold.input)) = Range(fold.output)

\* C13: a processChunk that was abandoned after some of its upserts, or
\* some of whose upserts failed, keeps what it wrote; the same call made
\* again, every upsert succeeding, leaves the tables as one call without
\* failure would have left them: every resolved record that has a value is
\* in its table, every other row is as before the first call.
C13_SafeRetry ==
  (/\ Len(done) = 2
   /\ done[1].op = "chunk" /\ done[2].op = "chunk"
   /\ done[1].failed # {}
   /\ done[2].pc = "done" /\ done[2].failed = {})
  => LET first == done[1]
         table == TableName(first.type)
     IN /\ done[2].before = first.after
        /\ \A i \in Upserted(first) :
             RowOf(first.type, first.records[i]) \in first.after[table]
        /\ done[2].records = first.records
        /\ \A i \in Upserted(done[2]) :
             RowOf(first.type, first.records[i]) \in db[table]
        /\ \A row \in db[table] :
             \/ row \in first.before[table]
             \/ \E i \in Upserted(done[2]) :
                  row = RowOf(first.type, first.records[i])
        /\ \A row \in first.before[table] :
             \/ row \in db[table]
             \/ \E i \in Upserted(done[2]) : RowsAt({row}, first.records[i]) # {}
        /\ \A t \in Tables \ {table} : db[t] = first.before[t]

\* the first call wrote one row, lost another, and the second call wrote
\* over a row the table held before
C13_Witness ==
  /\ Len(done) = 2
  /\ done[1].failed # {}
  /\ Upserted(done[1]) # {}
  /\ done[2].pc = "done" /\ done[2].failed = {}
  /\ done[2].after # done[1].after
  /\ \E i \in Upserted(done[2]) :
       /\ RowsAt(done[1].before[TableName(done[1].type)], done[1].records[i]) # {}
       /\ RowOf(done[1].type, done[1].records[i])
            \notin done[1].before[TableName(done[1].type)]

\* ------------------------------------------- the drive loop, carried on
\* A file is put into the bucket and a caller starts the loop on it; the
\* caller goes on calling as long as the last result says hasMore.
InitLive ==
  /\ bucket = [n \in FileNames |-> Absent]
  /\ db = EmptyDb
  /\ req = [r \in Slots |-> NoCall]
  /\ done = <<>>
  /\ fold = NoFold
  /\ drive = NoDrive

DriveOpen ==
  /\ drive = NoDrive
  /\ \E name \in DriveNames, text \in DriveTexts, chunkSize \in 1..MaxChunk :
       /\ bucket' = [n \in FileNames |-> IF n = name THEN text ELSE Absent]
       /\ drive' = [fileName |-> name, chunkSize |-> chunkSize, startLine |-> 1,
                    hasMore |-> TRUE, calls |-> 0, validRecords |-> 0,
                    invalidRecords |-> 0, insertedCount |-> 0,
                    seen |-> [p \in 1..Len(text) |-> 0]]
  /\ UNCHANGED <<db, req, done, fold>>

DriveStep == drive # NoDrive /\ DriveCall

NextLive == DriveOpen \/ DriveStep

\* DriveStep can be taken exactly when the loop is open and the last result
\* said hasMore: the step always moves startLine
DriveCanStep == drive # NoDrive /\ drive.hasMore

\* weak fairness of DriveStep, WF_vars(DriveStep), with ENABLED
\* <<DriveStep>>_vars written out as DriveCanStep
DriveFair == []<>(~DriveCanStep) \/ []<><<DriveStep>>_vars

SpecDriveLive == InitLive /\ [][NextLive]_vars /\ DriveFair

\* C14: a loop that has started comes to a result with hasMore false, and
\* after each call hasMore says whether the file has a line at an index
\* (from 0) of at least the startLine + chunkSize of that call.
C14_DriveTerminates ==
  /\ [](drive # NoDrive /\ drive.calls >= 1
        => (drive.hasMore
            <=> \E p \in 1..Len(DriveLines) : p - 1 >= drive.startLine))
  /\ (drive # NoDrive) ~> DriveOver

\* the loop has ended with its third call
C14_Witness ==
  /\ DriveOver
  /\ drive.calls = 3
  /\ drive.startLine = Len(DriveLines)

\* ------------------------------------------- one processCSVChunk, looked into
LineNoTime == <<"2024-01-01", "", "100", RevA>>

ChunkLines == BucketLines \cup {LineBlankValue, LineNoTime}

\* One file in the bucket, tables that hold rows, one processCSVChunk call.
InitChunk ==
  /\ \E name \in DriveNames, h \in Headers, body \in SeqUpTo(ChunkLines, MaxLines) :
       bucket = [n \in FileNames |-> IF n = name THEN <<h>> \o body ELSE Absent]
  /\ db = SeededDb
  /\ req = [r \in Slots |-> NoCall]
  /\ done = <<>>
  /\ fold = NoFold
  /\ drive = NoDrive

NextChunk ==
  \/ \E fileName \in FileNames, startLine \in StartLines, chunkSize \in ChunkSizes :
       ProcessChunkStart(1, fileName, startLine, chunkSize)
  \/ SkipRecord(1)
  \/ RunSucceeds(1)
  \/ RunRaises(1)

SpecChunk == InitChunk /\ [][NextChunk]_vars

\* the processCSVChunk calls, finished or between two upserts
ChunkCalls ==
  {call \in Done : call.op = "chunk"}
    \cup {req[r] : r \in {q \in Slots : req[q].pc = "store" /\ req[q].op = "chunk"}}

\* the positions (from 1, the header at 1) of the file's lines in the window
\* [startLine, startLine + chunkSize) of a call
WindowLines(call) ==
  {p \in 1..Len(bucket[call.fileName]) :
     call.startLine <= p - 1 /\ p - 1 < call.startLine + call.chunkSize}

\* the line at p has a cell that is not blank under the column of that name
Present(lines, p, name) ==
  \E c \in 1..Len(lines[1]) :
    /\ Trim(lines[1][c]) = name
    /\ c <= Len(lines[p])
    /\ Trim(lines[p][c]) # ""

\* date and time are there and at least one of load_fcst and load_act
LineValid(lines, p) ==
  /\ Present(lines, p, "date")
  /\ Present(lines, p, "time")
  /\ (Present(lines, p, "load_fcst") \/ Present(lines, p, "load_act"))

\* C15: validRecords is the number of lines of the window that have date,
\* time and one of load_fcst and load_act, invalidRecords the number of its
\* other lines; only records of valid lines are handed to storeForecastData,
\* and only rows of valid lines are written.
C15_WindowClassified ==
  \A call \in ChunkCalls :
    LET lines == bucket[call.fileName]
        valid == {p \in WindowLines(call) : LineValid(lines, p)}
        table == TableName(call.type)
    IN /\ call.validRecords = Cardinality(valid)
       /\ call.invalidRecords = Cardinality(WindowLines(call) \ valid)
       /\ call.validRecords + call.invalidRecords = Cardinality(WindowLines(call))
       /\ \A i \in 1..Len(call.data) :
            \E p \in valid : call.data[i] = RecordOfLine(HeadersOf(lines), lines[p])
       /\ \A row \in db[table] \ call.before[table] :
            \E p \in valid :
              row = RowOf(call.type, RecordOfLine(HeadersOf(lines), lines[p]))

\* a call has returned whose window held a line with a value and no time, or
\* with a blank value, next to a line it stored
C15_Witness ==
  \E call \in Done :
    /\ call.op = "chunk"
    /\ call.validRecords >= 1
    /\ call.insertedCount >= 1
    /\ \E p \in WindowLines(call) :
         bucket[call.fileName][p] \in {LineNoTime, LineBlankValue}
    /\ call.invalidRecords >= 1

\* the (date, time) pairs of the valid lines of a call's window
WindowKeys(call) ==
  LET lines == bucket[call.fileName]
  IN {<<RecordOfLine(HeadersOf(lines), lines[p]).date,
        RecordOfLine(HeadersOf(lines), lines[p]).time>> :
        p \in {q \in WindowLines(call) : LineValid(lines, q)}}

\* C16: duplicateRecords is validRecords less the number of distinct
\* (date, time) among the valid lines of the window, and what is left is the
\* number of records handed to storeForecastData.
C16_DuplicatesCounted ==
  \A call \in ChunkCalls :
    /\ call.duplicateRecords = call.validRecords - Cardinality(WindowKeys(call))
    /\ call.validRecords - call.duplicateRecords = Len(call.data)

\* C17: storeRecords resolves at most one record per (date, time); it
\* upserts a resolved record exactly when the value field of its kind is
\* not empty: a record whose value is missing or empty raises no error and
\* leaves the row at its key as it was, and insertedCount and the errors
\* together count the records that have a value.
C17_UpsertIffValue ==
  \A call \in Done :
    call.op = "store"
    => LET table == TableName(call.type)
           valued == {i \in 1..Len(call.records) :
                        Truthy(ValueOf(call.type, call.records[i]))}
       IN /\ \A i, j \in 1..Len(call.records) :
               PairOf(call.records[i]) = PairOf(call.records[j]) => i = j
          /\ call.insertedCount + call.errorCount = Cardinality(valued)
          /\ call.failed \subseteq valued
          /\ \A i \in 1..Len(call.records) \ valued :
               table \in Tables
               => RowsAt(call.after[table], call.records[i])
                    = RowsAt(call.before[table], call.records[i])

\* ------------------------------------------------ chunk sizes, compared
\* the tables after the drive loop has gone through the file with that
\* chunkSize from that startLine, every run() succeeding
RECURSIVE DriveAll(_, _, _, _, _)
DriveAll(tables, lines, fileName, startLine, chunkSize) ==
  LET plan == ChunkPlan(lines, fileName, startLine, chunkSize)
      stored == StoreAll(tables, plan.type, latestRecords(plan.latest)).db
  IN IF plan.hasMore
     THEN DriveAll(stored, lines, fileName, startLine + chunkSize, chunkSize)
     ELSE stored

\* C18: once the loop is over, the tables are what the loop leaves with any
\* other chunkSize on the same file from empty tables.
C18_ChunkSizeIndependent ==
  DriveOver
  => \A chunkSize \in 1..(MaxDriveLines + 1) :
       db = DriveAll(EmptyDb, DriveLines, drive.fileName, 1, chunkSize)

\* ---------------------------------------------- the frame of a chunk call
\* fileName.split('_')[0] on the file names of the sample
LeadingToken(fileName) ==
  CASE fileName = "load_act_archive.csv" -> "load"
    [] fileName = "load_load_fcst_archive.csv" -> "load"
    [] fileName = "d_load_fcst_archive.csv" -> "d"

\* fileName.startsWith('load_act') on the file names of the sample
StartsWithLoadAct(fileName) == fileName = "load_act_archive.csv"

\* the tables as a call has left them, or leaves them so far
Effect(call) == IF call \in Done THEN call.after ELSE db

\* a call on the file changes no table but target, and in target only rows
\* at the (date, time) of a valid line of its window; the rows it has
\* upserted are in target
FrameOf(call, target) ==
  /\ \A t \in Tables \ {target} : Effect(call)[t] = call.before[t]
  /\ target \in Tables
     => \A row \in (Effect(call)[target] \ call.before[target])
                     \cup (call.before[target] \ Effect(call)[target]) :
          <<row.date, row.time>> \in WindowKeys(call)
  /\ (call \in Done /\ Upserted(call) # {}) => target \in Tables

\* C19 as stated: the table is load_act when the name starts with load_act,
\* otherwise <leading token>_load_fcst.
C19_FrameByPrefix ==
  \A call \in ChunkCalls :
    bucket[call.fileName] # Absent
    => FrameOf(call, IF StartsWithLoadAct(call.fileName) THEN "load_act"
                     ELSE LeadingToken(call.fileName) \o "_load_fcst")

\* C19, amended: the table is load_act when the name starts with load_act or
\* its leading token is load, otherwise <leading token>_load_fcst; a call
\* changes no other table, and in that table only rows at the (date, time)
\* of a valid line of its window.
C19_FrameByType ==
  \A call \in ChunkCalls :
    bucket[call.fileName] # Absent
    => FrameOf(call, IF StartsWithLoadAct(call.fileName)
                        \/ LeadingToken(call.fileName) = "load"
                     THEN "load_act"
                     ELSE LeadingToken(call.fileName) \o "_load_fcst")

\* a call on load_load_fcst_archive.csv has written to load_act, over tables
\* that held rows
C19_Witness ==
  \E call \in Done :
    /\ call.op = "chunk"
    /\ call.fileName = "load_load_fcst_archive.csv"
    /\ call.before = SeededDb
    /\ call.after["load_act"] # call.before["load_act"]
    /\ call.after["d_load_fcst"] = call.before["d_load_fcst"]

\* C20: processedLines is the number of the file's lines in the window
\* [startLine, startLine + chunkSize), which is validRecords + invalidRecords.
C20_ProcessedLinesCounted ==
  \A call \in ChunkCalls :
    bucket[call.fileName] # Absent
    => /\ call.processedLines = Cardinality(WindowLines(call))
       /\ call.processedLines = call.validRecords + call.invalidRecords

====
